---- MODULE Spec2Model ----
(***************************************************************************)
(* Teranode monitor: the status aggregation core of teranode_monitor.py.   *)
(*                                                                         *)
(* A route handler calls get_node_status, which drives rpc_call up to four *)
(* times against the remote node and assembles the status dictionary.  The *)
(* node and the network are the environment: every transport call draws    *)
(* its outcome (an exception of requests.post / response.json, or a        *)
(* decoded body) from a finite set.                                        *)
(*                                                                         *)
(* Spec serves one request at a time over the full set of outcomes.        *)
(* SpecConc runs a second worker thread of the threaded server (w2) beside *)
(* the first one, over a reduced set of outcomes.                          *)
(*                                                                         *)
(* Python values are modelled as tagged records: None / JSON null is       *)
(* JNull, an int is JNum(n), a str is JStr(s), a list is JList(seq), a     *)
(* dict is JObj(f) with f a function from keys to values, and a float with *)
(* two decimals (the result of round(x, 2)) is JDec(h), h in hundredths.   *)
(***************************************************************************)
EXTENDS Integers, Sequences, FiniteSets, TLC

VARIABLES pc, route, status, calls, now, response, w2, config

vars == <<pc, route, status, calls, now, response, w2, config>>

\* The locals of the first worker thread.
worker1 == <<pc, route, status, calls, response>>

(***************************************************************************)
(* Bounds of the model.                                                    *)
(***************************************************************************)
\* Longest peer list the node returns.
MaxPeers == 15

\* Last reading of the wall clock.
MaxTime == 1

(***************************************************************************)
(* Configuration (module globals of teranode_monitor.py).                  *)
(***************************************************************************)
\* The values the module globals are given when the module is loaded.
StartupConfig ==
    [TERANODE_HOST     |-> "IP_ADDRESS_OF_TERANODE_SERVER_HERE",
     TERANODE_RPC_PORT |-> 9292,
     TERANODE_RPC_USER |-> "bitcoin",
     TERANODE_RPC_PASS |-> "bitcoin",
     TARGET_HEIGHT     |-> 928100]

\* The globals are read at every use.
TERANODE_HOST == config.TERANODE_HOST

TERANODE_RPC_PORT == config.TERANODE_RPC_PORT

TARGET_HEIGHT == config.TARGET_HEIGHT

\* peers[:10]
PeerLimit == 10

\* info.get("bestblockhash", "")[:16]
HashDisplayLen == 16

(***************************************************************************)
(* Python / JSON values.                                                   *)
(***************************************************************************)
JNull == [t |-> "null"]

JNum(n) == [t |-> "num", n |-> n]

JDec(h) == [t |-> "dec", h |-> h]

JStr(s) == [t |-> "str", s |-> s]

JBool(b) == [t |-> "bool", b |-> b]

JList(l) == [t |-> "list", l |-> l]

JObj(o) == [t |-> "obj", o |-> o]

EmptyDict == [k \in {} |-> JNull]

\* Python truthiness: None, 0, "", [] and {} are falsy.
Truthy(v) ==
    CASE v.t = "null" -> FALSE
      [] v.t = "num"  -> v.n # 0
      [] v.t = "dec"  -> v.h # 0
      [] v.t = "str"  -> v.s # ""
      [] v.t = "bool" -> v.b
      [] v.t = "list" -> v.l # <<>>
      [] v.t = "obj"  -> DOMAIN v.o # {}

\* hasattr(v, "get"): only a dict has the .get method.
HasGet(v) == v.t = "obj"

\* d.get(key, default) on a dict d.
Get(d, key, default) == IF key \in DOMAIN d.o THEN d.o[key] ELSE default

Min(a, b) == IF a <= b THEN a ELSE b

(***************************************************************************)
(* The environment: what one requests.post + response.json() can produce.  *)
(*   ConnectionError   requests.exceptions.ConnectionError                 *)
(*   Timeout           requests.exceptions.Timeout (read timeout)          *)
(*   ConnectTimeout    subclass of both ConnectionError and Timeout        *)
(*   Exception         any other exception, str(e) = msg                   *)
(*   Response          an HTTP response with a status code and a body;     *)
(*                     the body is NotJson or a decoded JSON value         *)
(***************************************************************************)
NotJson == [t |-> "notjson"]

ConnectionError == [k |-> "ConnectionError"]

Timeout == [k |-> "Timeout"]

ConnectTimeout == [k |-> "ConnectTimeout"]

OtherException(msg) == [k |-> "Exception", msg |-> msg]

Response(code, body) == [k |-> "Response", code |-> code, body |-> body]

\* A JSON-RPC reply whose result field is r.
Reply(r) == Response(200, JObj([result |-> r, error |-> JNull, id |-> JStr("monitor")]))

\* A JSON-RPC error reply, sent by the node with a non-2xx status.
ErrorReply(code) ==
    Response(code, JObj([result |-> JNull,
                         error |-> JObj([code |-> JNum(-32601), message |-> JStr("Method not found")]),
                         id |-> JStr("monitor")]))

\* A JSON object without a result field.
NoResultReply == Response(200, JObj([id |-> JStr("monitor")]))

FullHash == "000000000000000001a2b3c4d5e6f708192a3b4c5d6e7f8091a2b3c4d5e6f70819"

Heights == {-1, 900000, TARGET_HEIGHT, 1000000}

ChainInfo(blocks) ==
    JObj([blocks |-> JNum(blocks), bestblockhash |-> JStr(FullHash), chain |-> JStr("main"),
          difficulty |-> JNum(71), verificationprogress |-> JNum(1)])

ChainInfoResults ==
    {ChainInfo(b) : b \in Heights}
    \cup {JObj([chain |-> JStr("main")]),
          JObj([blocks |-> JNum(7), bestblockhash |-> JStr("")]),
          JObj([blocks |-> JNum(7), bestblockhash |-> JStr("00ab")]),
          JObj([blocks |-> JNum(7), bestblockhash |-> JNum(12)]),
          JObj([blocks |-> JNum(7), bestblockhash |-> JNull]),
          JObj([blocks |-> JStr("900000"), bestblockhash |-> JStr(FullHash)]),
          JObj([blocks |-> JNull]),
          JNull, JObj(EmptyDict), JNum(0), JList(<<>>),
          JStr("syncing"), JNum(7), JList(<<JNum(1)>>)}

NodeInfoResults ==
    {JObj([connections |-> JNum(8), version |-> JNum(101), protocolversion |-> JNum(70016)]),
     JObj([version |-> JNum(101)]),
     JNull,
     JStr("n/a")}

MempoolResults ==
    {JObj([size |-> JNum(3), bytes |-> JNum(700)]),
     JObj([size |-> JNum(3)]),
     JNull,
     JNum(5)}

\* The i-th peer record; every second one lacks addr and subver.
Peer(i) ==
    IF i % 2 = 1
    THEN JObj([addr |-> JStr("10.0.0.1:8333"), subver |-> JStr("/teranode:0.1/"),
               synced_blocks |-> JNum(i), inbound |-> JBool(FALSE)])
    ELSE JObj([synced_blocks |-> JNum(i)])

PeerList(n) == JList([i \in 1..n |-> Peer(i)])

PeerInfoResults ==
    {PeerList(n) : n \in 0..MaxPeers}
    \cup {JList(<<Peer(1), JStr("10.0.0.2:8333")>>),
          JObj([peers |-> JNum(2)]),
          JNull}

Results(method) ==
    CASE method = "getblockchaininfo" -> ChainInfoResults
      [] method = "getinfo"           -> NodeInfoResults
      [] method = "getmempoolinfo"    -> MempoolResults
      [] method = "getpeerinfo"       -> PeerInfoResults

Failures(method) ==
    IF method = "getblockchaininfo"
    THEN {ConnectionError, Timeout, ConnectTimeout, OtherException("boom"), OtherException(""),
          Response(200, NotJson), Response(502, NotJson), Response(200, JList(<<>>)),
          Response(200, JNull)}
    ELSE {ConnectionError, Timeout, Response(200, NotJson)}

Outcomes(method) ==
    Failures(method)
    \cup {Reply(r) : r \in Results(method)}
    \cup (IF method = "getblockchaininfo"
          THEN {ErrorReply(500), ErrorReply(401), NoResultReply, Response(500, ChainInfo(900000))}
          ELSE {ErrorReply(500), NoResultReply})

(***************************************************************************)
(* rpc_call: one attempt, classified into (result, error).                 *)
(***************************************************************************)
TypeName(v) ==
    CASE v.t = "null" -> "NoneType"
      [] v.t = "num"  -> "int"
      [] v.t = "dec"  -> "float"
      [] v.t = "str"  -> "str"
      [] v.t = "bool" -> "bool"
      [] v.t = "list" -> "list"
      [] v.t = "obj"  -> "dict"

\* str(e) of the AttributeError raised by result.get on a non-dict.
NoGetMessage(v) == "'" \o TypeName(v) \o "' object has no attribute 'get'"

\* isinstance(e, requests.exceptions.ConnectionError)
IsConnectionError(o) == o.k \in {"ConnectionError", "ConnectTimeout"}

\* isinstance(e, requests.exceptions.Timeout)
IsTimeout(o) == o.k \in {"Timeout", "ConnectTimeout"}

\* Variant of rpc_call whose except clauses are ordered Timeout, ConnectionError.
rpc_call_TimeoutFirst(o) ==
    IF IsTimeout(o)
    THEN [result |-> JNull, error |-> JStr("Request timed out")]
    ELSE IF IsConnectionError(o)
    THEN [result |-> JNull, error |-> JStr("Connection refused - is Teranode running?")]
    ELSE IF o.k = "Exception"
    THEN [result |-> JNull, error |-> JStr(o.msg)]
    ELSE IF o.body = NotJson
    THEN [result |-> JNull, error |-> JStr("Expecting value: line 1 column 1 (char 0)")]
    ELSE IF ~HasGet(o.body)
    THEN [result |-> JNull, error |-> JStr(NoGetMessage(o.body))]
    ELSE [result |-> Get(o.body, "result", JNull), error |-> JNull]

\* Variant of rpc_call that indexes result["result"]: a missing field is a KeyError.
rpc_call_MissingResultIsError(o) ==
    IF IsConnectionError(o)
    THEN [result |-> JNull, error |-> JStr("Connection refused - is Teranode running?")]
    ELSE IF IsTimeout(o)
    THEN [result |-> JNull, error |-> JStr("Request timed out")]
    ELSE IF o.k = "Exception"
    THEN [result |-> JNull, error |-> JStr(o.msg)]
    ELSE IF o.body = NotJson
    THEN [result |-> JNull, error |-> JStr("Expecting value: line 1 column 1 (char 0)")]
    ELSE IF ~HasGet(o.body)
    THEN [result |-> JNull, error |-> JStr(NoGetMessage(o.body))]
    ELSE IF "result" \notin DOMAIN o.body.o
    THEN [result |-> JNull, error |-> JStr("'result'")]
    ELSE [result |-> o.body.o["result"], error |-> JNull]

\* The except clauses are tried in order: ConnectionError, Timeout, Exception.
rpc_call(o) ==
    IF IsConnectionError(o)
    THEN [result |-> JNull, error |-> JStr("Connection refused - is Teranode running?")]
    ELSE IF IsTimeout(o)
    THEN [result |-> JNull, error |-> JStr("Request timed out")]
    ELSE IF o.k = "Exception"
    THEN [result |-> JNull, error |-> JStr(o.msg)]
    ELSE IF o.body = NotJson
    THEN [result |-> JNull, error |-> JStr("Expecting value: line 1 column 1 (char 0)")]
    ELSE IF ~HasGet(o.body)
    THEN [result |-> JNull, error |-> JStr(NoGetMessage(o.body))]
    ELSE [result |-> Get(o.body, "result", JNull), error |-> JNull]

(***************************************************************************)
(* Derived metrics (computed inline in get_node_status).                   *)
(***************************************************************************)
\* Variant of BlocksRemaining that floors the result at zero.
BlocksRemaining_Clamped(height) ==
    JNum(IF TARGET_HEIGHT - height.n < 0 THEN 0 ELSE TARGET_HEIGHT - height.n)

\* TARGET_HEIGHT - status["block_height"]
BlocksRemaining(height) == JNum(TARGET_HEIGHT - height.n)

\* Nearest integer to num/den (den > 0), ties to even, as round() does.
RoundDiv(num, den) ==
    LET f == num \div den
        r == num % den
    IN  IF 2 * r < den THEN f
        ELSE IF 2 * r > den THEN f + 1
        ELSE IF f % 2 = 0 THEN f ELSE f + 1

RECURSIVE GCD(_, _)
GCD(a, b) == IF b = 0 THEN a ELSE GCD(b, a % b)

\* Variant of SyncPercentage that truncates to two decimals instead of rounding.
SyncPercentage_Truncated(height) ==
    IF TARGET_HEIGHT > 0
    THEN LET g == GCD(10000, TARGET_HEIGHT)
         IN  JDec((height.n * (10000 \div g)) \div (TARGET_HEIGHT \div g))
    ELSE JNum(0)

\* round((block_height / TARGET_HEIGHT) * 100, 2) if TARGET_HEIGHT > 0 else 0
\* The result is kept in hundredths: height * 10000 / TARGET_HEIGHT, with the
\* fraction reduced first so that the product stays within 32 bits.
SyncPercentage(height) ==
    IF TARGET_HEIGHT > 0
    THEN LET g == GCD(10000, TARGET_HEIGHT)
         IN  JDec(RoundDiv(height.n * (10000 \div g), TARGET_HEIGHT \div g))
    ELSE JNum(0)

\* v[:16] + "..." for a str v
DisplayHash(v) == JStr(SubSeq(v.s, 1, Min(Len(v.s), HashDisplayLen)) \o "...")

\* One entry of the peers list comprehension.
PeerSummary(p) ==
    [addr          |-> Get(p, "addr", JStr("unknown")),
     subver        |-> Get(p, "subver", JStr("")),
     synced_blocks |-> Get(p, "synced_blocks", JNum(0))]

\* Variant of ProjectPeers without the [:10] slice.
ProjectPeers_Uncapped(peers) ==
    [i \in 1..Len(peers.l) |-> PeerSummary(peers.l[i])]

\* [ {...} for p in peers[:10] ]
ProjectPeers(peers) ==
    [i \in 1..Min(Len(peers.l), PeerLimit) |-> PeerSummary(peers.l[i])]

(***************************************************************************)
(* get_node_status, one operator per block of the function.  Each returns  *)
(* the next control point and the status dictionary; "raised" means an     *)
(* exception left get_node_status (the dictionary is then lost).           *)
(***************************************************************************)
InitialStatus(clock) ==
    [online                |-> FALSE,
     error                 |-> JNull,
     block_height          |-> JNum(0),
     best_block_hash       |-> JStr(""),
     chain                 |-> JStr(""),
     difficulty            |-> JNum(0),
     connections           |-> JNum(0),
     version               |-> JNum(0),
     protocol_version      |-> JNum(0),
     verification_progress |-> JNum(0),
     sync_percentage       |-> JNum(0),
     target_height         |-> JNum(TARGET_HEIGHT),
     blocks_remaining      |-> JNum(TARGET_HEIGHT),
     mempool_size          |-> JNum(0),
     mempool_bytes         |-> JNum(0),
     peers                 |-> <<>>,
     last_update           |-> clock]

\* The statements of the "if info:" block that can raise:
\*   info.get(...) needs a dict, [:16] + "..." needs a str,
\*   TARGET_HEIGHT - block_height and block_height / TARGET_HEIGHT need a number.
ChainInfoRaises(info) ==
    \/ ~HasGet(info)
    \/ Get(info, "bestblockhash", JStr("")).t # "str"
    \/ Get(info, "blocks", JNum(0)).t # "num"

ChainInfoStatus(st, info) ==
    LET height == Get(info, "blocks", JNum(0))
    IN  [st EXCEPT !.online = TRUE,
                   !.block_height = height,
                   !.best_block_hash = DisplayHash(Get(info, "bestblockhash", JStr(""))),
                   !.chain = Get(info, "chain", JStr("unknown")),
                   !.difficulty = Get(info, "difficulty", JNum(0)),
                   !.verification_progress = Get(info, "verificationprogress", JNum(0)),
                   !.blocks_remaining = BlocksRemaining(height),
                   !.sync_percentage = SyncPercentage(height)]

\* Variant of StepChainInfo that marks the node online whenever the call
\* returned no error, before looking at the result.
StepChainInfo_OnlineWithoutData(st, r) ==
    IF Truthy(r.error)
    THEN [pc |-> "returned", status |-> [st EXCEPT !.error = r.error]]
    ELSE IF ~Truthy(r.result)
    THEN [pc |-> "getinfo", status |-> [st EXCEPT !.online = TRUE]]
    ELSE IF ChainInfoRaises(r.result)
    THEN [pc |-> "raised", status |-> st]
    ELSE [pc |-> "getinfo", status |-> ChainInfoStatus(st, r.result)]

\* info, error = rpc_call("getblockchaininfo"); if error: ...; if info: ...
StepChainInfo(st, r) ==
    IF Truthy(r.error)
    THEN [pc |-> "returned", status |-> [st EXCEPT !.error = r.error]]
    ELSE IF ~Truthy(r.result)
    THEN [pc |-> "getinfo", status |-> st]
    ELSE IF ChainInfoRaises(r.result)
    THEN [pc |-> "raised", status |-> st]
    ELSE [pc |-> "getinfo", status |-> ChainInfoStatus(st, r.result)]

\* Variant of StepNodeInfo that calls getinfo again after a failed attempt.
StepNodeInfo_Retry(st, r) ==
    IF Truthy(r.error)
    THEN [pc |-> "getinfo", status |-> st]
    ELSE IF ~Truthy(r.result)
    THEN [pc |-> "getmempoolinfo", status |-> st]
    ELSE IF ~HasGet(r.result)
    THEN [pc |-> "raised", status |-> st]
    ELSE [pc |-> "getmempoolinfo",
          status |-> [st EXCEPT !.connections = Get(r.result, "connections", JNum(0)),
                                !.version = Get(r.result, "version", JNum(0)),
                                !.protocol_version = Get(r.result, "protocolversion", JNum(0))]]

\* Variant of StepNodeInfo that surfaces the getinfo error in the snapshot.
StepNodeInfo_Surfaced(st, r) ==
    IF Truthy(r.error)
    THEN [pc |-> "getmempoolinfo", status |-> [st EXCEPT !.error = r.error]]
    ELSE IF ~Truthy(r.result)
    THEN [pc |-> "getmempoolinfo", status |-> st]
    ELSE IF ~HasGet(r.result)
    THEN [pc |-> "raised", status |-> st]
    ELSE [pc |-> "getmempoolinfo",
          status |-> [st EXCEPT !.connections = Get(r.result, "connections", JNum(0)),
                                !.version = Get(r.result, "version", JNum(0)),
                                !.protocol_version = Get(r.result, "protocolversion", JNum(0))]]

\* node_info, _ = rpc_call("getinfo"); if node_info: ...
StepNodeInfo(st, r) ==
    IF ~Truthy(r.result)
    THEN [pc |-> "getmempoolinfo", status |-> st]
    ELSE IF ~HasGet(r.result)
    THEN [pc |-> "raised", status |-> st]
    ELSE [pc |-> "getmempoolinfo",
          status |-> [st EXCEPT !.connections = Get(r.result, "connections", JNum(0)),
                                !.version = Get(r.result, "version", JNum(0)),
                                !.protocol_version = Get(r.result, "protocolversion", JNum(0))]]

\* mempool, _ = rpc_call("getmempoolinfo"); if mempool: ...
StepMempool(st, r) ==
    IF ~Truthy(r.result)
    THEN [pc |-> "getpeerinfo", status |-> st]
    ELSE IF ~HasGet(r.result)
    THEN [pc |-> "raised", status |-> st]
    ELSE [pc |-> "getpeerinfo",
          status |-> [st EXCEPT !.mempool_size = Get(r.result, "size", JNum(0)),
                                !.mempool_bytes = Get(r.result, "bytes", JNum(0))]]

\* p.get raises for an entry of peers[:10] that is not a dict.
PeersRaises(peers) ==
    \E i \in 1..Min(Len(peers.l), PeerLimit) : ~HasGet(peers.l[i])

\* Variant of StepPeers that resets connections when no peer list arrived.
StepPeers_ResetConnections(st, r) ==
    IF ~(Truthy(r.result) /\ r.result.t = "list")
    THEN [pc |-> "returned", status |-> [st EXCEPT !.connections = JNum(0)]]
    ELSE IF \E i \in 1..Min(Len(r.result.l), PeerLimit) : ~HasGet(r.result.l[i])
    THEN [pc |-> "raised", status |-> st]
    ELSE [pc |-> "returned",
          status |-> [st EXCEPT !.peers = ProjectPeers(r.result),
                                !.connections = JNum(Len(r.result.l))]]

\* peers, _ = rpc_call("getpeerinfo"); if peers and isinstance(peers, list): ...
StepPeers(st, r) ==
    IF ~(Truthy(r.result) /\ r.result.t = "list")
    THEN [pc |-> "returned", status |-> st]
    ELSE IF PeersRaises(r.result)
    THEN [pc |-> "raised", status |-> st]
    ELSE [pc |-> "returned",
          status |-> [st EXCEPT !.peers = ProjectPeers(r.result),
                                !.connections = JNum(Len(r.result.l))]]

(***************************************************************************)
(* Route handlers.                                                         *)
(***************************************************************************)
Routes == {"/", "/api/status", "/api/health"}

NoResponse == [code |-> 0]

\* render_template_string(HTML_TEMPLATE, status=..., teranode_host=..., teranode_port=...)
index(st) ==
    [code |-> 200, view |-> "html", status |-> st,
     teranode_host |-> TERANODE_HOST, teranode_port |-> TERANODE_RPC_PORT]

\* jsonify(status)
api_status(st) == [code |-> 200, view |-> "json", status |-> st]

\* jsonify({"healthy": ..., "block_height": ..., "connections": ...})
api_health(st) ==
    [code |-> 200, view |-> "health",
     healthy |-> st.online, block_height |-> st.block_height, connections |-> st.connections]

\* The server answers 500 when the handler raises.
InternalServerError == [code |-> 500]

(***************************************************************************)
(* The state machine.                                                      *)
(***************************************************************************)
\* The block of get_node_status that follows the rpc_call of a method.
StepOf(method, st, r) ==
    CASE method = "getblockchaininfo" -> StepChainInfo(st, r)
      [] method = "getinfo"           -> StepNodeInfo(st, r)
      [] method = "getmempoolinfo"    -> StepMempool(st, r)
      [] method = "getpeerinfo"       -> StepPeers(st, r)

\* The response a route handler builds from the snapshot.
View(r, st) ==
    CASE r = "/"           -> index(st)
      [] r = "/api/status" -> api_status(st)
      [] r = "/api/health" -> api_health(st)

\* A worker thread that serves no request.
IdleWorker ==
    [pc |-> "idle", route |-> "none", status |-> InitialStatus(0),
     calls |-> <<>>, response |-> NoResponse]

Init ==
    /\ config = StartupConfig
    /\ pc = "idle"
    /\ route = "none"
    /\ status = InitialStatus(0)
    /\ calls = <<>>
    /\ now = 0
    /\ response = NoResponse
    /\ w2 = IdleWorker

\* Variant of Receive in which the status dictionary of the previous request
\* is kept and updated in place (a module-level cache) instead of rebuilt.
Receive_Cached(r) ==
    /\ pc = "idle"
    /\ route' = r
    /\ status' = [status EXCEPT !.last_update = now]
    /\ calls' = <<>>
    /\ response' = NoResponse
    /\ pc' = "getblockchaininfo"
    /\ UNCHANGED <<now, w2, config>>

\* An inbound request reaches a route handler, which enters get_node_status
\* and builds the default status dictionary.
Receive(r) ==
    /\ pc = "idle"
    /\ route' = r
    /\ status' = InitialStatus(now)
    /\ calls' = <<>>
    /\ response' = NoResponse
    /\ pc' = "getblockchaininfo"
    /\ UNCHANGED <<now, w2, config>>

\* Variant of Call that raises the configured target to the height the node
\* reports when the node is ahead of it.
Call_TracksTarget(method, o, d) ==
    /\ pc = method
    /\ now + d <= MaxTime
    /\ now' = now + d
    /\ calls' = Append(calls, [method |-> method, outcome |-> o])
    /\ LET s == StepOf(method, status, rpc_call(o))
       IN  /\ pc' = s.pc
           /\ status' = s.status
           /\ config' = IF s.status.block_height.n > TARGET_HEIGHT
                        THEN [config EXCEPT !.TARGET_HEIGHT = s.status.block_height.n]
                        ELSE config
    /\ UNCHANGED <<route, response, w2>>

\* One rpc_call of get_node_status and the block that consumes its result.
\* The call takes d units of wall-clock time.
Call(method, o, d) ==
    /\ pc = method
    /\ now + d <= MaxTime
    /\ now' = now + d
    /\ calls' = Append(calls, [method |-> method, outcome |-> o])
    /\ LET s == StepOf(method, status, rpc_call(o))
       IN  /\ pc' = s.pc
           /\ status' = s.status
    /\ UNCHANGED <<route, response, w2, config>>

GetBlockchainInfo == \E o \in Outcomes("getblockchaininfo"), d \in 0..1 : Call("getblockchaininfo", o, d)

GetInfo == \E o \in Outcomes("getinfo"), d \in 0..1 : Call("getinfo", o, d)

GetMempoolInfo == \E o \in Outcomes("getmempoolinfo"), d \in 0..1 : Call("getmempoolinfo", o, d)

GetPeerInfo == \E o \in Outcomes("getpeerinfo"), d \in 0..1 : Call("getpeerinfo", o, d)

\* get_node_status returned: the route handler builds the response.
Respond ==
    /\ pc = "returned"
    /\ response' = View(route, status)
    /\ pc' = "idle"
    /\ UNCHANGED <<route, status, calls, now, w2, config>>

\* get_node_status raised: the exception propagates through the handler.
Fail ==
    /\ pc = "raised"
    /\ response' = InternalServerError
    /\ pc' = "idle"
    /\ UNCHANGED <<route, status, calls, now, w2, config>>

Next ==
    \/ \E r \in Routes : Receive(r)
    \/ GetBlockchainInfo
    \/ GetInfo
    \/ GetMempoolInfo
    \/ GetPeerInfo
    \/ Respond
    \/ Fail

Spec == Init /\ [][Next]_vars

\* Every transport call completes: requests.post carries timeout=10, so a
\* pending call is answered or fails at the bound.
SpecFair ==
    Spec /\ WF_vars(GetBlockchainInfo \/ GetInfo \/ GetMempoolInfo \/ GetPeerInfo)

(***************************************************************************)
(* The threaded server (app.run(..., threaded=True)): a second worker      *)
(* thread runs the same handlers on its own locals, interleaved with the   *)
(* first one at every transport call.  Both read the configuration and the *)
(* wall clock; neither takes a lock.                                       *)
(***************************************************************************)
Methods == {"getblockchaininfo", "getinfo", "getmempoolinfo", "getpeerinfo"}

\* The outcomes drawn when two requests are served concurrently.
ConcOutcomes(method) ==
    CASE method = "getblockchaininfo" ->
             {Timeout, Reply(ChainInfo(900000)), NoResultReply, Reply(JStr("syncing"))}
      [] method = "getinfo" ->
             {ConnectionError,
              Reply(JObj([connections |-> JNum(8), version |-> JNum(101),
                          protocolversion |-> JNum(70016)]))}
      [] method = "getmempoolinfo" ->
             {ConnectionError, Reply(JObj([size |-> JNum(3), bytes |-> JNum(700)]))}
      [] method = "getpeerinfo" ->
             {ConnectionError, Reply(PeerList(1)), Reply(PeerList(MaxPeers))}

\* The first worker's transport call, over the reduced outcomes.
ConcCall == \E m \in Methods : \E o \in ConcOutcomes(m), d \in 0..1 : Call(m, o, d)

W2Receive(r) ==
    /\ w2.pc = "idle"
    /\ w2' = [pc |-> "getblockchaininfo", route |-> r, status |-> InitialStatus(now),
              calls |-> <<>>, response |-> NoResponse]
    /\ UNCHANGED <<worker1, now, config>>

\* Variant of W2Call in which the status dictionary is a module-level global
\* shared by the worker threads.
W2Call_SharedStatus(o, d) ==
    /\ w2.pc \in Methods
    /\ now + d <= MaxTime
    /\ now' = now + d
    /\ LET s == StepOf(w2.pc, status, rpc_call(o))
       IN  w2' = [w2 EXCEPT !.pc = s.pc,
                            !.status = s.status,
                            !.calls = Append(w2.calls, [method |-> w2.pc, outcome |-> o])]
    /\ UNCHANGED <<worker1, config>>

W2Call(o, d) ==
    /\ w2.pc \in Methods
    /\ now + d <= MaxTime
    /\ now' = now + d
    /\ LET s == StepOf(w2.pc, w2.status, rpc_call(o))
       IN  w2' = [w2 EXCEPT !.pc = s.pc,
                            !.status = s.status,
                            !.calls = Append(w2.calls, [method |-> w2.pc, outcome |-> o])]
    /\ UNCHANGED <<worker1, config>>

\* The second worker's transport call, over the reduced outcomes.
W2ConcCall ==
    \E m \in Methods :
        /\ w2.pc = m
        /\ \E o \in ConcOutcomes(m), d \in 0..1 : W2Call(o, d)

W2Respond ==
    /\ w2.pc = "returned"
    /\ w2' = [w2 EXCEPT !.response = View(w2.route, w2.status), !.pc = "idle"]
    /\ UNCHANGED <<worker1, now, config>>

W2Fail ==
    /\ w2.pc = "raised"
    /\ w2' = [w2 EXCEPT !.response = InternalServerError, !.pc = "idle"]
    /\ UNCHANGED <<worker1, now, config>>

NextConc ==
    \/ \E r \in Routes : Receive(r)
    \/ ConcCall
    \/ Respond
    \/ Fail
    \/ \E r \in Routes : W2Receive(r)
    \/ W2ConcCall
    \/ W2Respond
    \/ W2Fail

SpecConc == Init /\ [][NextConc]_vars

(***************************************************************************)
(* Vocabulary of the properties.                                           *)
(***************************************************************************)
\* get_node_status has returned its status dictionary (the snapshot).
Returned == pc = "returned"

\* The k-th transport call of the current aggregation was made.
Made(k) == Len(calls) >= k

\* What rpc_call handed back for the k-th transport call.
Outcome(k) == rpc_call(calls[k].outcome)

\* The k-th call ended in one of rpc_call's except branches.
RpcFailed(k) == Outcome(k).error # JNull

\* The primary call returned no error and a non-empty result (chain data).
PrimaryGaveChainData == Made(1) /\ ~RpcFailed(1) /\ Truthy(Outcome(1).result)

\* The value a call's result carries for a key (the default when it carries none).
Reported(k, key, default) ==
    IF ~RpcFailed(k) /\ Outcome(k).result.t = "obj"
    THEN Get(Outcome(k).result, key, default)
    ELSE default

\* The peer list returned by the node (empty when the call failed or
\* returned something that is not a list).
PeersReturned ==
    IF Made(4) /\ ~RpcFailed(4) /\ Outcome(4).result.t = "list"
    THEN Outcome(4).result.l
    ELSE <<>>

NodeFieldsAtDefaults ==
    /\ status.block_height = JNum(0)
    /\ status.best_block_hash = JStr("")
    /\ status.chain = JStr("")
    /\ status.difficulty = JNum(0)
    /\ status.verification_progress = JNum(0)
    /\ status.sync_percentage = JNum(0)
    /\ status.connections = JNum(0)
    /\ status.version = JNum(0)
    /\ status.protocol_version = JNum(0)
    /\ status.mempool_size = JNum(0)
    /\ status.mempool_bytes = JNum(0)
    /\ status.peers = <<>>

(***************************************************************************)
(* C1.  Whenever the getblockchaininfo call ends in one of rpc_call's      *)
(* failure branches, the returned snapshot has online = false, a non-null  *)
(* error, block_height = 0, difficulty = 0, peers = [], target_height =    *)
(* TARGET_HEIGHT and blocks_remaining = TARGET_HEIGHT.                     *)
(* Refuted by an exception whose str() is empty: "if error:" is then       *)
(* false, error stays None and the secondary calls run.                    *)
(***************************************************************************)
C1_PrimaryFailureSnapshot ==
    (Returned /\ RpcFailed(1)) =>
        /\ status.online = FALSE
        /\ status.error # JNull
        /\ status.block_height = JNum(0)
        /\ status.difficulty = JNum(0)
        /\ status.peers = <<>>
        /\ status.target_height = JNum(TARGET_HEIGHT)
        /\ status.blocks_remaining = JNum(TARGET_HEIGHT)

(***************************************************************************)
(* C2.  In every returned snapshot error is non-null exactly when online   *)
(* is false, and online is true exactly when the getblockchaininfo call    *)
(* succeeded.  Refuted by a reply without error whose result is null,      *)
(* missing or empty: online = false with error = None.                     *)
(***************************************************************************)
C2_ErrorIffOffline ==
    Returned =>
        /\ (status.error # JNull) <=> (status.online = FALSE)
        /\ (status.online = TRUE) <=> ~RpcFailed(1)

(***************************************************************************)
(* C3.  In every aggregation whose snapshot has online = false exactly one *)
(* transport call, getblockchaininfo, was made.  Refuted by a primary      *)
(* reply without chain data: the three secondary calls are still issued.   *)
(***************************************************************************)
C3_OfflineMeansOneCall ==
    (Returned /\ status.online = FALSE) =>
        /\ Len(calls) = 1
        /\ calls[1].method = "getblockchaininfo"

(***************************************************************************)
(* C4.  Every snapshot with online = false has all node-derived fields at  *)
(* their defaults.  Refuted by a primary reply without chain data followed *)
(* by successful secondary calls.                                          *)
(***************************************************************************)
C4_OfflineMeansDefaults ==
    (Returned /\ status.online = FALSE) => NodeFieldsAtDefaults

(***************************************************************************)
(* C5.  When the primary call succeeds, secondary failures are silent and  *)
(* isolated: online stays true and error null whatever subset of the       *)
(* secondary calls failed; a failed call's own fields stay at their        *)
(* defaults; a successful call's fields carry that call's own result.      *)
(***************************************************************************)
C5_SecondaryFailuresSilent ==
    (Returned /\ Made(4)) =>
        /\ PrimaryGaveChainData => (status.online = TRUE /\ status.error = JNull)
        /\ status.version = Reported(2, "version", JNum(0))
        /\ status.protocol_version = Reported(2, "protocolversion", JNum(0))
        /\ status.mempool_size = Reported(3, "size", JNum(0))
        /\ status.mempool_bytes = Reported(3, "bytes", JNum(0))
        /\ Len(status.peers) = Min(Len(PeersReturned), PeerLimit)
        /\ \A i \in 1..Len(status.peers) :
               status.peers[i].synced_blocks = Get(PeersReturned[i], "synced_blocks", JNum(0))

\* Chain data arrived, getinfo failed, mempool and peer calls succeeded.
C5_Witness ==
    /\ Returned /\ Made(4) /\ PrimaryGaveChainData
    /\ RpcFailed(2) /\ ~RpcFailed(3) /\ ~RpcFailed(4)
    /\ status.online = TRUE /\ status.error = JNull
    /\ status.version = JNum(0) /\ status.protocol_version = JNum(0)
    /\ status.mempool_size = JNum(3) /\ status.mempool_bytes = JNum(700)
    /\ Len(status.peers) = 3

(***************************************************************************)
(* C6.  Whenever the primary call succeeds and getpeerinfo returns a list  *)
(* of n peers, for every n >= 0, connections equals n and peers has length *)
(* min(n, 10).  Refuted by n = 0: an empty list is falsy, so connections   *)
(* keeps the value reported by getinfo.                                    *)
(***************************************************************************)
C6_ConnectionsIsPeerCount ==
    (Returned /\ PrimaryGaveChainData /\ Made(4) /\ ~RpcFailed(4) /\ Outcome(4).result.t = "list") =>
        /\ status.connections = JNum(Len(Outcome(4).result.l))
        /\ Len(status.peers) = Min(Len(Outcome(4).result.l), PeerLimit)

(***************************************************************************)
(* C7.  Whenever the primary call succeeds and the getpeerinfo call fails, *)
(* connections equals the value reported by getinfo (0 if getinfo failed   *)
(* too) and peers is the empty list.                                       *)
(***************************************************************************)
C7_PeerFailureKeepsNodeInfo ==
    (Returned /\ Made(4) /\ ~RpcFailed(1) /\ RpcFailed(4)) =>
        /\ status.connections = Reported(2, "connections", JNum(0))
        /\ status.peers = <<>>

\* Chain data arrived, getinfo reported 8 connections, getpeerinfo failed.
C7_Witness ==
    /\ Returned /\ Made(4) /\ PrimaryGaveChainData /\ RpcFailed(4)
    /\ Reported(2, "connections", JNum(0)) = JNum(8)
    /\ status.connections = JNum(8)
    /\ status.peers = <<>>

(***************************************************************************)
(* C8.  In every snapshot peers has at most 10 entries and is the          *)
(* order-preserving projection of the first min(n, 10) entries of the peer *)
(* list returned by the node, for every input length n.                    *)
(***************************************************************************)
C8_PeersProjection ==
    Returned =>
        /\ Len(status.peers) <= 10
        /\ Len(status.peers) = Min(Len(PeersReturned), 10)
        /\ \A i \in 1..Len(status.peers) :
               /\ status.peers[i].addr = Get(PeersReturned[i], "addr", JStr("unknown"))
               /\ status.peers[i].subver = Get(PeersReturned[i], "subver", JStr(""))
               /\ status.peers[i].synced_blocks = Get(PeersReturned[i], "synced_blocks", JNum(0))
               /\ DOMAIN status.peers[i] = {"addr", "subver", "synced_blocks"}

\* The node returned more than 10 peers and the snapshot kept the first 10.
C8_Witness ==
    /\ Returned
    /\ Len(PeersReturned) > 10
    /\ Len(status.peers) = 10
    /\ status.peers[10].synced_blocks = JNum(10)

(***************************************************************************)
(* C9.  Every aggregation returns a snapshot; no exception leaves          *)
(* get_node_status, whatever the node answers.  Refuted by a result of     *)
(* unexpected shape: a truthy non-dict result, a non-string bestblockhash, *)
(* a non-numeric blocks or a peer entry that is not a dict raises.         *)
(***************************************************************************)
C9_NeverRaises == pc # "raised"

(***************************************************************************)
(* C10.  In every snapshot blocks_remaining = target_height - block_height *)
(* with no clamping at zero (negative when the node is past TARGET_HEIGHT; *)
(* 28100 for TARGET_HEIGHT = 928100 and blocks = 900000).                  *)
(***************************************************************************)
C10_BlocksRemaining ==
    Returned =>
        /\ status.blocks_remaining = JNum(status.target_height.n - status.block_height.n)
        /\ status.block_height.n > TARGET_HEIGHT => status.blocks_remaining.n < 0
        /\ (TARGET_HEIGHT = 928100 /\ status.block_height = JNum(900000)) =>
               status.blocks_remaining = JNum(28100)

\* The node is past the target height and blocks_remaining is negative.
C10_Witness ==
    /\ Returned
    /\ status.online = TRUE
    /\ status.block_height = JNum(1000000)
    /\ status.blocks_remaining = JNum(-71900)

(***************************************************************************)
(* C11.  For every online snapshot sync_percentage is                      *)
(* block_height / TARGET_HEIGHT * 100 rounded to two decimals when         *)
(* TARGET_HEIGHT > 0 and 0 otherwise: 96.97 for 900000 of 928100, and      *)
(* above 100 (not capped) when block_height > TARGET_HEIGHT.               *)
(* In hundredths p, "rounded to two decimals" says that p is an integer    *)
(* nearest to 10000 * h / T, i.e. 2 * |p * T - 10000 * h| <= T; both sides *)
(* are divided by 100 (which divides T) to stay within 32 bits.            *)
(***************************************************************************)
Abs(x) == IF x < 0 THEN -x ELSE x

C11_SyncPercentage ==
    (Returned /\ status.online = TRUE) =>
        IF TARGET_HEIGHT > 0
        THEN /\ TARGET_HEIGHT % 100 = 0
             /\ status.sync_percentage.t = "dec"
             /\ 2 * Abs(status.sync_percentage.h * (TARGET_HEIGHT \div 100)
                        - 100 * status.block_height.n) <= TARGET_HEIGHT \div 100
             /\ (TARGET_HEIGHT = 928100 /\ status.block_height = JNum(900000)) =>
                    status.sync_percentage = JDec(9697)
             /\ status.block_height.n > TARGET_HEIGHT => status.sync_percentage.h > 10000
        ELSE status.sync_percentage = JNum(0)

\* The node is past the target height: 1000000 of 928100 blocks is 107.75 %.
C11_Witness ==
    /\ Returned
    /\ status.online = TRUE
    /\ status.block_height = JNum(1000000)
    /\ status.sync_percentage = JDec(10775)

(***************************************************************************)
(* C12.  best_block_hash is the empty string whenever the node's full hash *)
(* is empty or unavailable (also in an online snapshot whose chain info    *)
(* has no bestblockhash), and the first 16 characters of the full hash     *)
(* followed by "..." otherwise.  Refuted by chain info without a hash: the *)
(* code appends "..." unconditionally and reports "...".                   *)
(***************************************************************************)
\* The full hash the node reported for this aggregation ("" when it gave none).
FullHashReported ==
    IF status.online THEN Reported(1, "bestblockhash", JStr("")).s ELSE ""

C12_DisplayHash ==
    Returned =>
        IF FullHashReported = ""
        THEN status.best_block_hash = JStr("")
        ELSE status.best_block_hash =
                 JStr(SubSeq(FullHashReported, 1, Min(Len(FullHashReported), 16)) \o "...")

(***************************************************************************)
(* C13.  rpc_call classifies a failed attempt into one outcome, which      *)
(* becomes the snapshot's error when the call is the primary one: a        *)
(* refused connection gives "Connection refused - is Teranode running?",   *)
(* an exceeded deadline gives "Request timed out" (with online = false and *)
(* block_height = 0), any other failure gives its cause string.            *)
(* Refuted by a deadline exceeded while connecting (ConnectTimeout is      *)
(* caught by the ConnectionError clause first) and by an empty cause.      *)
(***************************************************************************)
C13_ErrorClassification ==
    (Returned /\ Made(1)) =>
        LET o == calls[1].outcome
        IN  /\ o.k = "ConnectionError" =>
                   status.error = JStr("Connection refused - is Teranode running?")
            /\ IsTimeout(o) =>
                   /\ status.error = JStr("Request timed out")
                   /\ status.online = FALSE
                   /\ status.block_height = JNum(0)
            /\ o.k = "Exception" => status.error = JStr(o.msg)

(***************************************************************************)
(* C14.  The health view returns exactly healthy, block_height and         *)
(* connections, all from the single aggregation of that request, so that   *)
(* healthy = false comes with block_height = 0 and connections = 0.        *)
(* Refuted by a primary reply without chain data: the secondary calls      *)
(* still fill connections while online stays false.                        *)
(***************************************************************************)
HealthAnswered == pc = "idle" /\ route = "/api/health" /\ response.code = 200

C14_HealthView ==
    HealthAnswered =>
        /\ DOMAIN response = {"code", "view", "healthy", "block_height", "connections"}
        /\ response.healthy = status.online
        /\ response.block_height = status.block_height
        /\ response.connections = status.connections
        /\ response.healthy = FALSE =>
               (response.block_height = JNum(0) /\ response.connections = JNum(0))

(***************************************************************************)
(* What a worker's state must be when it depends on nothing but the        *)
(* configuration, the clock reading taken when its request arrived and the *)
(* outcomes of its own transport calls: the result of running              *)
(* get_node_status over exactly those calls.                               *)
(***************************************************************************)
RECURSIVE Replay(_, _)
Replay(cs, s) ==
    IF cs = <<>> THEN s
    ELSE IF s.pc # Head(cs).method THEN [pc |-> "invalid", status |-> s.status]
    ELSE Replay(Tail(cs), StepOf(Head(cs).method, s.status, rpc_call(Head(cs).outcome)))

Aggregation(w) ==
    Replay(w.calls, [pc |-> "getblockchaininfo", status |-> InitialStatus(w.status.last_update)])

Worker1 == [pc |-> pc, route |-> route, status |-> status, calls |-> calls, response |-> response]

OwnAggregation(w) ==
    /\ w.status = Aggregation(w).status
    /\ w.pc # "idle" => w.pc = Aggregation(w).pc
    /\ (w.pc = "idle" /\ w.response.code = 200) =>
           /\ Aggregation(w).pc = "returned"
           /\ w.response = View(w.route, Aggregation(w).status)
    /\ (w.pc = "idle" /\ w.response.code = 500) => Aggregation(w).pc = "raised"
    /\ (w.pc = "idle" /\ w.response # NoResponse) =>
           Cardinality({k \in 1..Len(w.calls) : w.calls[k].method = "getblockchaininfo"}) = 1

(***************************************************************************)
(* C15.  Each inbound request to /, /api/status or /api/health triggers    *)
(* exactly one fresh aggregation and its response is built only from that  *)
(* aggregation: nothing of an earlier request is reused, and a transport   *)
(* call is issued only while a request is being served.                    *)
(***************************************************************************)
ServedFresh ==
    /\ (pc = "idle" /\ pc' # "idle") =>
           /\ route' \in Routes
           /\ calls' = <<>>
           /\ status' = InitialStatus(now)
           /\ response' = NoResponse
    /\ Len(calls') > Len(calls) => (pc \in Methods /\ route \in Routes)
    /\ (response' # response /\ response' # NoResponse) =>
           /\ pc \in {"returned", "raised"}
           /\ pc' = "idle"
           /\ calls' = calls
           /\ status' = status

C15_FreshAggregationPerRequest == []OwnAggregation(Worker1) /\ [][ServedFresh]_vars

\* A request that arrived after an earlier one had spent time on the node is
\* answered with the chain data of its own calls.
C15_Witness ==
    /\ pc = "idle"
    /\ route = "/api/status"
    /\ response.code = 200
    /\ response.status.last_update = 1
    /\ response.status.online = TRUE
    /\ PrimaryGaveChainData
    /\ response.status.block_height = Reported(1, "blocks", JNum(0))

(***************************************************************************)
(* C16.  Under any interleaving of two concurrently served requests the    *)
(* snapshot of each is determined by the configuration and by that         *)
(* request's own transport calls; no step of one request changes the       *)
(* locals of the other.  The model has no lock.                            *)
(***************************************************************************)
Isolation ==
    /\ w2' # w2 => UNCHANGED worker1
    /\ worker1' # worker1 => w2' = w2

C16_RequestsIsolated ==
    [](OwnAggregation(Worker1) /\ OwnAggregation(w2)) /\ [][Isolation]_vars

\* Two requests are in flight at once and end with different snapshots.
C16_Witness ==
    /\ pc = "returned" /\ w2.pc = "returned"
    /\ Len(calls) = 4 /\ Len(w2.calls) = 1
    /\ status.online = TRUE /\ Len(status.peers) = 10
    /\ w2.status.online = FALSE /\ w2.status.error = JStr("Request timed out")
    /\ w2.status.peers = <<>>

(***************************************************************************)
(* C17.  Whenever the primary call succeeds with chain data the            *)
(* aggregation issues exactly four transport calls, in the order           *)
(* getblockchaininfo, getinfo, getmempoolinfo, getpeerinfo, whatever the   *)
(* earlier secondary calls gave.  Refuted by a result of unexpected shape: *)
(* the exception ends the aggregation before the remaining calls.          *)
(***************************************************************************)
MethodOrder == <<"getblockchaininfo", "getinfo", "getmempoolinfo", "getpeerinfo">>

AggregationEnded == pc \in {"returned", "raised"}

C17_FourCallsInOrder ==
    (AggregationEnded /\ PrimaryGaveChainData) =>
        /\ Len(calls) = 4
        /\ \A k \in 1..4 : calls[k].method = MethodOrder[k]

(***************************************************************************)
(* C18.  rpc_call signals a failure (null result, non-null error) for a    *)
(* body that is not JSON, for a JSON body that is not an object and for a  *)
(* non-2xx response whose body is a JSON object.  Refuted by the last      *)
(* case: the status code is never looked at.                               *)
(***************************************************************************)
Malformed(o) ==
    /\ o.k = "Response"
    /\ \/ o.body = NotJson
       \/ ~HasGet(o.body)
       \/ o.code \notin 200..299

C18_MalformedIsFailure ==
    \A k \in 1..Len(calls) :
        Malformed(calls[k].outcome) =>
            (Outcome(k).result = JNull /\ Outcome(k).error # JNull)

(***************************************************************************)
(* C19.  Each rpc_call makes one network attempt and never retries: an     *)
(* attempt adds one entry to the aggregation's calls and control moves on; *)
(* within one aggregation every method is sent at most once and at most    *)
(* four requests reach the node, whatever the failures.                    *)
(***************************************************************************)
AtMostOncePerMethod ==
    /\ Len(calls) <= 4
    /\ \A i, j \in 1..Len(calls) : i # j => calls[i].method # calls[j].method

OneAttemptNoRetry ==
    calls' # calls =>
        \/ calls' = <<>>
        \/ /\ Len(calls') = Len(calls) + 1
           /\ SubSeq(calls', 1, Len(calls)) = calls
           /\ calls'[Len(calls')].method = pc
           /\ pc' # pc

C19_NoRetry == []AtMostOncePerMethod /\ [][OneAttemptNoRetry]_vars

\* All three secondary calls failed and still only four requests were sent.
C19_Witness ==
    /\ Returned /\ Len(calls) = 4
    /\ RpcFailed(2) /\ RpcFailed(3) /\ RpcFailed(4)

(***************************************************************************)
(* C20.  A decoded body that is a JSON object without a result field is a  *)
(* successful call with a null result and no error, for the primary and    *)
(* for each secondary call alike: the primary one does not set the         *)
(* snapshot's error and the aggregation goes on to the next call.          *)
(***************************************************************************)
LacksResult(o) ==
    /\ o.k = "Response"
    /\ o.body # NotJson
    /\ HasGet(o.body)
    /\ "result" \notin DOMAIN o.body.o

C20_MissingResultIsSuccess ==
    /\ \A k \in 1..Len(calls) :
           LacksResult(calls[k].outcome) =>
               (Outcome(k).result = JNull /\ Outcome(k).error = JNull)
    /\ (Made(1) /\ LacksResult(calls[1].outcome)) =>
           /\ status.error = JNull
           /\ Len(calls) = 1 => pc = "getinfo"
    /\ \A k \in 2..Len(calls) :
           (LacksResult(calls[k].outcome) /\ Len(calls) = k) =>
               pc = (IF k = 4 THEN "returned" ELSE MethodOrder[k + 1])
                 \/ pc = "idle"

\* Every one of the four calls was answered by an object without result.
C20_Witness ==
    /\ Returned /\ Len(calls) = 4
    /\ \A k \in 1..4 : LacksResult(calls[k].outcome)
    /\ status.error = JNull

(***************************************************************************)
(* C21.  last_update is the clock reading taken when the snapshot is       *)
(* assembled at the end of the aggregation: it is never earlier than the   *)
(* completion of the aggregation's last transport call.  (The clock only   *)
(* advances during transport calls, so at the return it still reads the    *)
(* completion time of the last call.)  Refuted by any call that takes      *)
(* time: the stamp is taken when the dictionary is built, before the       *)
(* first call.                                                             *)
(***************************************************************************)
C21_StampedAtTheEnd ==
    (Returned /\ Made(1)) => status.last_update >= now

(***************************************************************************)
(* C22.  No operation modifies the process-wide configuration: host, port, *)
(* credentials and TARGET_HEIGHT keep their startup values through any     *)
(* sequence of requests, every snapshot's target_height is TARGET_HEIGHT   *)
(* whatever the node returns, and the page shows the configured endpoint.  *)
(***************************************************************************)
C22_ConfigurationUnchanged ==
    /\ config = StartupConfig
    /\ status.target_height = JNum(StartupConfig.TARGET_HEIGHT)
    /\ (pc = "idle" /\ route = "/" /\ response.code = 200) =>
           /\ response.teranode_host = StartupConfig.TERANODE_HOST
           /\ response.teranode_port = StartupConfig.TERANODE_RPC_PORT
           /\ response.status.target_height = JNum(StartupConfig.TARGET_HEIGHT)

\* A later request (the clock has advanced) finds the node past the target:
\* the target in its snapshot is still the configured one.
C22_Witness ==
    /\ Returned
    /\ status.last_update = 1
    /\ status.online = TRUE
    /\ status.block_height = JNum(1000000)
    /\ status.target_height = JNum(928100)
    /\ config.TARGET_HEIGHT = 928100

(***************************************************************************)
(* C23.  In every snapshot block_height, connections, mempool_size and     *)
(* mempool_bytes are integers >= 0, whatever the node returns.  Refuted by *)
(* a node that reports a negative height: the value is copied unchecked.   *)
(***************************************************************************)
NonNegativeInt(v) == v.t = "num" /\ v.n >= 0

C23_RangesHold ==
    Returned =>
        /\ NonNegativeInt(status.block_height)
        /\ NonNegativeInt(status.connections)
        /\ NonNegativeInt(status.mempool_size)
        /\ NonNegativeInt(status.mempool_bytes)

(***************************************************************************)
(* C24.  Provided every transport call completes, every aggregation        *)
(* terminates and returns a snapshot after at most four transport calls;   *)
(* get_node_status has no loop and waits on nothing but its own calls.     *)
(* Stated on finite runs: an aggregation that has ended has returned a     *)
(* snapshot, and it made at most four calls, each method at most once.     *)
(***************************************************************************)
C24_TerminatesWithSnapshot ==
    /\ AtMostOncePerMethod
    /\ AggregationEnded => (Returned /\ Len(calls) \in 1..4)

\* The termination half on its own, under SpecFair: an aggregation in
\* progress always ends, by returning or by raising.
C24_Terminates == (pc \in Methods) ~> AggregationEnded

(***************************************************************************)
(* C25.  In every snapshot with online = true, error is null and the       *)
(* getblockchaininfo call of the same aggregation returned no error and a  *)
(* non-empty result; a health view with healthy = true therefore reflects  *)
(* chain info obtained during that very request.                           *)
(***************************************************************************)
C25_OnlineMeansChainData ==
    /\ (pc \in {"getinfo", "getmempoolinfo", "getpeerinfo", "returned"} /\ status.online = TRUE) =>
           /\ status.error = JNull
           /\ PrimaryGaveChainData
           /\ calls[1].method = "getblockchaininfo"
    /\ (HealthAnswered /\ response.healthy = TRUE) =>
           /\ PrimaryGaveChainData
           /\ calls[1].method = "getblockchaininfo"
           /\ response.block_height = Get(Outcome(1).result, "blocks", JNum(0))

\* A health view that reports healthy = true for the height the node gave.
C25_Witness ==
    /\ HealthAnswered
    /\ response.healthy = TRUE
    /\ PrimaryGaveChainData
    /\ response.block_height = JNum(900000)

(***************************************************************************)
(* C26.  rpc_call's failure classification is first match in the order     *)
(* connection error, timeout, other: a failure of both the connection and  *)
(* the timeout class (a timeout while connecting) is reported as           *)
(* "Connection refused - is Teranode running?", never as "Request timed    *)
(* out", and every raised failure gets exactly one of the three texts.     *)
(***************************************************************************)
RefusedText == JStr("Connection refused - is Teranode running?")

TimedOutText == JStr("Request timed out")

C26_FirstMatchClassification ==
    /\ \A k \in 1..Len(calls) :
           LET o == calls[k].outcome
           IN  o.k # "Response" =>
                   /\ Outcome(k).result = JNull
                   /\ Outcome(k).error =
                          (IF o.k \in {"ConnectionError", "ConnectTimeout"} THEN RefusedText
                           ELSE IF o.k = "Timeout" THEN TimedOutText
                           ELSE JStr(o.msg))
    /\ (Returned /\ Made(1) /\ calls[1].outcome.k = "ConnectTimeout") =>
           /\ status.error = RefusedText
           /\ status.error # TimedOutText

\* The primary call timed out while connecting; the snapshot says "refused".
C26_Witness ==
    /\ Returned
    /\ Len(calls) = 1
    /\ calls[1].outcome.k = "ConnectTimeout"
    /\ status.error = RefusedText

====
